---- MODULE Spec2Model ----
(***************************************************************************)
(* Model of the x86-64 emitter of compiler/gen_dev (generic64/x86_64.rs):  *)
(* the instruction encoders, the three-address Assembler operations, the   *)
(* prolog/epilog of the calling conventions, and the processor that runs   *)
(* the emitted bytes.                                                       *)
(*                                                                         *)
(* Numbers.  An i32 is an integer in I32_MIN..I32_MAX.  A 64-bit value     *)
(* (i64, f64 bit pattern, register contents) is a tuple of four 16-bit     *)
(* limbs, most significant first, so that 64-bit arithmetic, its overflow  *)
(* and the little-endian byte order are computed, not assumed.             *)
(***************************************************************************)
EXTENDS Integers, Sequences, FiniteSets, TLC

VARIABLES
    buf,     \* the caller-owned byte buffer (Vec<u8>)
    relocs,  \* the caller-owned relocation list (Vec<Relocation>)
    last,    \* the last call made on the buffer: operation, arguments, result
    regs,    \* the general-purpose register file on entry to the emitted code
    cpu,     \* the processor running the emitted code: registers and flags
    alloc,   \* a backend's free-register vectors and the registers it popped
    lower    \* the last type-lowering call: environment, input, result

vars == <<buf, relocs, last, regs, cpu, alloc, lower>>

(***************************************************************************)
(* Registers: the enumerators' ordinals.                                   *)
(***************************************************************************)
RAX == 0
RCX == 1
RDX == 2
RBX == 3
RSP == 4
RBP == 5
RSI == 6
RDI == 7
R8 == 8
R9 == 9
R10 == 10
R11 == 11
R12 == 12
R13 == 13
R14 == 14
R15 == 15
X86_64GPReg == 0..15
X86_64FPReg == 0..15

STACK_ALIGNMENT == 16
REX == \h40
REX_W == REX + \h8

I32_MAX == 2147483647
I32_MIN == -2147483647 - 1

(***************************************************************************)
(* 64-bit values as limbs.                                                 *)
(***************************************************************************)
Limb == 2 ^ 16
W64Zero == <<0, 0, 0, 0>>
W64Min == <<32768, 0, 0, 0>>
W64Max == <<32767, 65535, 65535, 65535>>

\* `x as i64` for an i32 x: sign extension.
i32_as_i64(x) ==
    LET s == IF x < 0 THEN Limb - 1 ELSE 0
    IN  <<s, s, (x \div Limb) % Limb, x % Limb>>

\* `x as i64` for a usize x that fits 31 bits (a slice length).
usize_as_i64(x) == <<0, 0, (x \div Limb) % Limb, x % Limb>>

\* `x as i32` for an i64 x: truncation to the low 32 bits, read as signed.
i64_as_i32(w) ==
    IF w[3] >= Limb \div 2 THEN (w[3] - Limb) * Limb + w[4]
                           ELSE w[3] * Limb + w[4]

\* Wrapping 64-bit addition, limb by limb with carry.
WrappingAdd64(a, b) ==
    LET s4 == a[4] + b[4]
        s3 == a[3] + b[3] + (s4 \div Limb)
        s2 == a[2] + b[2] + (s3 \div Limb)
        s1 == a[1] + b[1] + (s2 \div Limb)
    IN  <<s1 % Limb, s2 % Limb, s3 % Limb, s4 % Limb>>

Not64(a) == [i \in 1..4 |-> (Limb - 1) - a[i]]
WrappingNeg64(a) == WrappingAdd64(Not64(a), <<0, 0, 0, 1>>)
WrappingSub64(a, b) == WrappingAdd64(a, WrappingNeg64(b))
IsNeg64(a) == a[1] >= Limb \div 2

\* Signed overflow of a + b and of a - b.
AddOverflows64(a, b) ==
    /\ IsNeg64(a) = IsNeg64(b)
    /\ IsNeg64(WrappingAdd64(a, b)) # IsNeg64(a)
SubOverflows64(a, b) ==
    /\ IsNeg64(a) # IsNeg64(b)
    /\ IsNeg64(WrappingSub64(a, b)) # IsNeg64(a)

\* Signed comparison a <= b: flip the sign bit, then compare limbs in order.
Biased(a) == <<(a[1] + Limb \div 2) % Limb, a[2], a[3], a[4]>>
RECURSIVE LexLe(_, _, _)
LexLe(a, b, i) ==
    IF i > 4 THEN TRUE
    ELSE IF a[i] # b[i] THEN a[i] < b[i]
    ELSE LexLe(a, b, i + 1)
Le64(a, b) == LexLe(Biased(a), Biased(b), 1)

(***************************************************************************)
(* to_le_bytes.                                                            *)
(***************************************************************************)
i32_to_le_bytes(v) == [k \in 1..4 |-> (v \div (256 ^ (k - 1))) % 256]
u32_to_le_bytes(v) == [k \in 1..4 |-> (v \div (256 ^ (k - 1))) % 256]
i64_to_le_bytes(w) ==
    [k \in 1..8 |->
        LET limb == w[4 - ((k - 1) \div 2)]
        IN  IF k % 2 = 1 THEN limb % 256 ELSE limb \div 256]
f64_to_le_bytes(w) == i64_to_le_bytes(w)

(***************************************************************************)
(* REX helpers.                                                            *)
(***************************************************************************)
add_rm_extension(reg, byte) == IF reg > 7 THEN byte + 1 ELSE byte

add_opcode_extension(reg, byte) == add_rm_extension(reg, byte)

add_reg_extension_swapped(reg, byte) == IF reg > 7 THEN byte + 1 ELSE byte
add_reg_extension(reg, byte) == IF reg > 7 THEN byte + 4 ELSE byte

(***************************************************************************)
(* The instruction encoders.  Each takes the buffer and returns it with    *)
(* the instruction's bytes appended (buf.extend / buf.push).               *)
(***************************************************************************)
add_reg64_imm32(b, dst, imm) ==
    LET rex == add_rm_extension(dst, REX_W)
        dst_mod == dst % 8
    IN  (b \o <<rex, \h81, \hC0 + dst_mod>>) \o i32_to_le_bytes(imm)

add_reg64_reg64(b, dst, src) ==
    LET rex == add_reg_extension(src, add_rm_extension(dst, REX_W))
        dst_mod == dst % 8
        src_mod == (src % 8) * 8
    IN  b \o <<rex, \h01, \hC0 + dst_mod + src_mod>>

sub_reg64_reg64(b, dst, src) ==
    LET rex == add_reg_extension(src, add_rm_extension(dst, REX_W))
        dst_mod == dst % 8
        src_mod == (src % 8) * 8
    IN  b \o <<rex, \h29, \hC0 + dst_mod + src_mod>>

cmovl_reg64_reg64(b, dst, src) ==
    LET rex == add_rm_extension(src, add_reg_extension(dst, REX_W))
        dst_mod == (dst % 8) * 8
        src_mod == src % 8
    IN  b \o <<rex, \h0F, \h4C, \hC0 + dst_mod + src_mod>>

mov_reg64_imm32(b, dst, imm) ==
    LET rex == add_rm_extension(dst, REX_W)
        dst_mod == dst % 8
    IN  (b \o <<rex, \hC7, \hC0 + dst_mod>>) \o i32_to_le_bytes(imm)

mov_reg64_imm64_strict(b, dst, imm) ==
    IF /\ ~Le64(i32_as_i64(I32_MAX), imm)
       /\ ~Le64(imm, i32_as_i64(I32_MIN))
    THEN mov_reg64_imm32(b, dst, i64_as_i32(imm))
    ELSE LET rex == add_opcode_extension(dst, REX_W)
             dst_mod == dst % 8
         IN  (b \o <<rex, \hB8 + dst_mod>>) \o i64_to_le_bytes(imm)
mov_reg64_imm64(b, dst, imm) ==
    IF /\ Le64(imm, i32_as_i64(I32_MAX))
       /\ Le64(i32_as_i64(I32_MIN), imm)
    THEN mov_reg64_imm32(b, dst, i64_as_i32(imm))
    ELSE LET rex == add_opcode_extension(dst, REX_W)
             dst_mod == dst % 8
         IN  (b \o <<rex, \hB8 + dst_mod>>) \o i64_to_le_bytes(imm)

mov_reg64_reg64(b, dst, src) ==
    LET rex == add_reg_extension(src, add_rm_extension(dst, REX_W))
        dst_mod == dst % 8
        src_mod == (src % 8) * 8
    IN  b \o <<rex, \h89, \hC0 + dst_mod + src_mod>>

mov_reg64_stack32(b, dst, offset) ==
    LET rex == add_reg_extension(dst, REX_W)
        dst_mod == (dst % 8) * 8
    IN  (b \o <<rex, \h8B, \h84 + dst_mod, \h24>>) \o i32_to_le_bytes(offset)

mov_stack32_reg64(b, offset, src) ==
    LET rex == add_reg_extension(src, REX_W)
        src_mod == (src % 8) * 8
    IN  (b \o <<rex, \h89, \h84 + src_mod, \h24>>) \o i32_to_le_bytes(offset)

movsd_freg64_freg64_swapped(b, dst, src) ==
    LET dst_high == IF dst > 7 THEN 1 ELSE 0
        dst_mod == dst % 8
        src_high == IF src > 7 THEN 1 ELSE 0
        src_mod == src % 8
    IN  IF dst_high = 1 \/ src_high = 1
        THEN b \o <<\hF2, \h40 + src_high * 4 + dst_high, \h0F, \h10,
                    \hC0 + dst_mod * 8 + src_mod>>
        ELSE b \o <<\hF2, \h0F, \h10, \hC0 + dst_mod * 8 + src_mod>>
movsd_freg64_freg64(b, dst, src) ==
    LET dst_high == IF dst > 7 THEN 1 ELSE 0
        dst_mod == dst % 8
        src_high == IF src > 7 THEN 1 ELSE 0
        src_mod == src % 8
    IN  IF dst_high = 1 \/ src_high = 1
        THEN b \o <<\hF2, \h40 + dst_high * 4 + src_high, \h0F, \h10,
                    \hC0 + dst_mod * 8 + src_mod>>
        ELSE b \o <<\hF2, \h0F, \h10, \hC0 + dst_mod * 8 + src_mod>>

movsd_freg64_rip_offset32_positional(b, dst, offset) ==
    LET dst_mod == dst % 8
        head == IF dst > 7
                THEN b \o <<\hF2, \h44, \h0F, \h10, \h05 + dst_mod * 8>>
                ELSE b \o <<\hF2, \h0F, \h10, \h05 + dst_mod * 8>>
    IN  head \o u32_to_le_bytes(offset + Len(b))
movsd_freg64_rip_offset32(b, dst, offset) ==
    LET dst_mod == dst % 8
        head == IF dst > 7
                THEN b \o <<\hF2, \h44, \h0F, \h10, \h05 + dst_mod * 8>>
                ELSE b \o <<\hF2, \h0F, \h10, \h05 + dst_mod * 8>>
    IN  head \o u32_to_le_bytes(offset)

neg_reg64(b, reg) ==
    LET rex == add_rm_extension(reg, REX_W)
        reg_mod == reg % 8
    IN  b \o <<rex, \hF7, \hD8 + reg_mod>>

ret(b) == Append(b, \hC3)

sub_reg64_imm32(b, dst, imm) ==
    LET rex == add_rm_extension(dst, REX_W)
        dst_mod == dst % 8
    IN  (b \o <<rex, \h81, \hE8 + dst_mod>>) \o i32_to_le_bytes(imm)

pop_reg64(b, reg) ==
    LET reg_mod == reg % 8
    IN  IF reg > 7
        THEN b \o <<add_opcode_extension(reg, REX), \h58 + reg_mod>>
        ELSE Append(b, \h58 + reg_mod)

push_reg64_always_rex(b, reg) ==
    LET reg_mod == reg % 8
    IN  b \o <<add_opcode_extension(reg, REX), \h50 + reg_mod>>
push_reg64(b, reg) ==
    LET reg_mod == reg % 8
    IN  IF reg > 7
        THEN b \o <<add_opcode_extension(reg, REX), \h50 + reg_mod>>
        ELSE Append(b, \h50 + reg_mod)

(***************************************************************************)
(* impl Assembler for X86_64Assembler: the three-address operations.       *)
(***************************************************************************)
abs_reg64_reg64(b, dst, src) ==
    cmovl_reg64_reg64(neg_reg64(mov_reg64_reg64(b, dst, src), dst), dst, src)

add_reg64_reg64_imm32(b, dst, src1, imm32) ==
    IF dst = src1
    THEN add_reg64_imm32(b, dst, imm32)
    ELSE add_reg64_imm32(mov_reg64_reg64(b, dst, src1), dst, imm32)

add_reg64_reg64_reg64_noswap(b, dst, src1, src2) ==
    IF dst = src1
    THEN add_reg64_reg64(b, dst, src2)
    ELSE IF dst = src2
    THEN add_reg64_reg64(b, dst, src2)
    ELSE add_reg64_reg64(mov_reg64_reg64(b, dst, src1), dst, src2)
add_reg64_reg64_reg64(b, dst, src1, src2) ==
    IF dst = src1
    THEN add_reg64_reg64(b, dst, src2)
    ELSE IF dst = src2
    THEN add_reg64_reg64(b, dst, src1)
    ELSE add_reg64_reg64(mov_reg64_reg64(b, dst, src1), dst, src2)

\* Returns the buffer and the relocation list after the call.
mov_freg64_imm64_before(b, rs, dst, imm) ==
    LET b2 == movsd_freg64_rip_offset32(b, dst, 0)
    IN  [buf |-> b2,
         relocs |-> Append(rs, [offset |-> Len(b) - 4,
                                data |-> f64_to_le_bytes(imm)])]
mov_freg64_imm64(b, rs, dst, imm) ==
    LET b2 == movsd_freg64_rip_offset32(b, dst, 0)
    IN  [buf |-> b2,
         relocs |-> Append(rs, [offset |-> Len(b2) - 4,
                                data |-> f64_to_le_bytes(imm)])]

sub_reg64_reg64_imm32(b, dst, src1, imm32) ==
    IF dst = src1
    THEN sub_reg64_imm32(b, dst, imm32)
    ELSE sub_reg64_imm32(mov_reg64_reg64(b, dst, src1), dst, imm32)

sub_reg64_reg64_reg64_shortcut(b, dst, src1, src2) ==
    IF dst = src1
    THEN sub_reg64_reg64(b, dst, src2)
    ELSE IF dst = src2
    THEN sub_reg64_reg64(b, dst, src1)
    ELSE sub_reg64_reg64(mov_reg64_reg64(b, dst, src1), dst, src2)
sub_reg64_reg64_reg64(b, dst, src1, src2) ==
    IF dst = src1
    THEN sub_reg64_reg64(b, dst, src2)
    ELSE sub_reg64_reg64(mov_reg64_reg64(b, dst, src1), dst, src2)

(***************************************************************************)
(* Prolog and epilog, shared by both calling conventions.                  *)
(***************************************************************************)
\* for reg in saved_regs { push_reg64(buf, *reg) }
RECURSIVE PushSaved(_, _)
PushSaved(b, saved) ==
    IF saved = <<>> THEN b
    ELSE PushSaved(push_reg64(b, Head(saved)), Tail(saved))

\* for reg in saved_regs.iter().rev() { pop_reg64(buf, *reg) }
RECURSIVE PopSavedForward(_, _)
PopSavedForward(b, saved) ==
    IF saved = <<>> THEN b
    ELSE PopSavedForward(pop_reg64(b, Head(saved)), Tail(saved))
RECURSIVE PopSaved(_, _)
PopSaved(b, saved) ==
    IF saved = <<>> THEN b
    ELSE PopSaved(pop_reg64(b, saved[Len(saved)]),
                  SubSeq(saved, 1, Len(saved) - 1))

\* let full_size = 8 * saved_regs.len() as i64 + requested_stack_size as i64;
\* the sum and whether it overflowed the type it is computed in.
FullSize32(n, requested_stack_size) ==
    LET wide == WrappingAdd64(usize_as_i64(8 * n),
                              i32_as_i64(requested_stack_size))
        wrapped == i32_as_i64(i64_as_i32(wide))
    IN  [sum |-> wrapped, overflow |-> wrapped # wide]
FullSize(n, requested_stack_size) ==
    LET a == usize_as_i64(8 * n)
        r == i32_as_i64(requested_stack_size)
    IN  [sum |-> WrappingAdd64(a, r), overflow |-> AddOverflows64(a, r)]

\* let alignment = if full_size <= 0 { 0 } else { full_size % 16 };
Alignment(full_size) ==
    IF Le64(full_size, W64Zero) THEN 0 ELSE full_size[4] % STACK_ALIGNMENT

\* let offset = if alignment == 0 { 0 } else { STACK_ALIGNMENT - alignment };
StackOffsetNoZeroCase(alignment) == STACK_ALIGNMENT - alignment
StackOffset(alignment) ==
    IF alignment = 0 THEN 0 ELSE STACK_ALIGNMENT - alignment

\* i32::checked_add(a, b) for 0 <= b: None is <<>>, Some(v) is <<v>>.
checked_add(a, b) == IF a > I32_MAX - b THEN <<>> ELSE <<a + b>>

\* X86_64Assembler::sub_reg64_reg64_imm32(buf, RSP, RSP, aligned) when > 0.
ReserveAlways(b, aligned_stack_size) ==
    sub_reg64_reg64_imm32(b, RSP, RSP, aligned_stack_size)
Reserve(b, aligned_stack_size) ==
    IF aligned_stack_size > 0
    THEN sub_reg64_reg64_imm32(b, RSP, RSP, aligned_stack_size)
    ELSE b

\* Returns the buffer, Ok/Err, the Ok value, and whether full_size overflowed.
x86_64_generic_setup_stack_unclamped(b, leaf_function, saved_regs, requested_stack_size) ==
    LET b1 == IF ~leaf_function
              THEN mov_reg64_reg64(push_reg64(b, RBP), RBP, RSP)
              ELSE b
        b2 == PushSaved(b1, saved_regs)
        full == FullSize(Len(saved_regs), requested_stack_size)
        offset == StackOffset(Alignment(full.sum))
        sum == checked_add(requested_stack_size, offset)
    IN  IF sum # <<>>
        THEN [buf |-> Reserve(b2, sum[1]), ok |-> TRUE, val |-> sum[1],
              overflow |-> full.overflow]
        ELSE [buf |-> b2, ok |-> FALSE, val |-> 0, overflow |-> full.overflow]
x86_64_generic_setup_stack(b, leaf_function, saved_regs, requested_stack_size) ==
    LET b1 == IF ~leaf_function
              THEN mov_reg64_reg64(push_reg64(b, RBP), RBP, RSP)
              ELSE b
        b2 == PushSaved(b1, saved_regs)
        full == FullSize(Len(saved_regs), requested_stack_size)
        offset == StackOffset(Alignment(full.sum))
        sum == checked_add(requested_stack_size, offset)
    IN  IF sum # <<>>
        THEN [buf |-> Reserve(b2, sum[1]), ok |-> TRUE,
              val |-> IF sum[1] > 0 THEN sum[1] ELSE 0,
              overflow |-> full.overflow]
        ELSE [buf |-> b2, ok |-> FALSE, val |-> 0, overflow |-> full.overflow]

Release(b, aligned_stack_size) ==
    IF aligned_stack_size > 0
    THEN add_reg64_reg64_imm32(b, RSP, RSP, aligned_stack_size)
    ELSE b

x86_64_generic_cleanup_stack_pop_first(b, leaf_function, saved_regs, aligned_stack_size) ==
    LET b1 == PopSaved(b, saved_regs)
        b2 == Release(b1, aligned_stack_size)
        b3 == IF ~leaf_function
              THEN pop_reg64(mov_reg64_reg64(b2, RSP, RBP), RBP)
              ELSE b2
    IN  [buf |-> b3, ok |-> TRUE]
x86_64_generic_cleanup_stack(b, leaf_function, saved_regs, aligned_stack_size) ==
    LET b1 == Release(b, aligned_stack_size)
        b2 == PopSaved(b1, saved_regs)
        b3 == IF ~leaf_function
              THEN pop_reg64(mov_reg64_reg64(b2, RSP, RBP), RBP)
              ELSE b2
    IN  [buf |-> b3, ok |-> TRUE]

(***************************************************************************)
(* The processor: decoding of the instruction forms the encoders' doc      *)
(* comments name, and their effect on the registers and on SF and OF.      *)
(***************************************************************************)
At(bs, i) == IF i >= 1 /\ i <= Len(bs) THEN bs[i] ELSE -1

\* A 32-bit little-endian immediate, read as signed.
Imm32At(bs, i) ==
    LET low == bs[i] + 256 * bs[i + 1] + 65536 * bs[i + 2]
        top == bs[i + 3]
    IN  IF top >= 128 THEN (top - 256) * 16777216 + low
                      ELSE top * 16777216 + low

\* A 64-bit little-endian immediate.
Imm64At(bs, i) ==
    <<bs[i + 6] + 256 * bs[i + 7], bs[i + 4] + 256 * bs[i + 5],
      bs[i + 2] + 256 * bs[i + 3], bs[i] + 256 * bs[i + 1]>>

Ins(op, dst, src, imm32, imm64) ==
    [op |-> op, dst |-> dst, src |-> src, imm32 |-> imm32, imm64 |-> imm64]

Decoded(ins, len) == [ins |-> ins, len |-> len]
Invalid == Decoded(Ins("INVALID", 0, 0, 0, W64Zero), 1)

\* An instruction that starts with a REX.W prefix; rexR and rexB are the
\* prefix's R and B bits.
DecodeRexW(bs, rexR, rexB) ==
    LET opc == At(bs, 2)
        modrm == At(bs, 3)
        mod == modrm \div 64
        reg == (modrm \div 8) % 8
        rm == modrm % 8
    IN  IF opc \in {\h01, \h29, \h89} /\ modrm >= 0 /\ mod = 3
        THEN Decoded(Ins(CASE opc = \h01 -> "ADD"
                           [] opc = \h29 -> "SUB"
                           [] OTHER -> "MOV",
                         rm + 8 * rexB, reg + 8 * rexR, 0, W64Zero), 3)
        ELSE IF opc = \h89 /\ modrm >= 0 /\ mod = 2 /\ rm = 4
                /\ At(bs, 4) = \h24 /\ Len(bs) >= 8
        THEN Decoded(Ins("MOV_STACK_REG", RSP, reg + 8 * rexR,
                         Imm32At(bs, 5), W64Zero), 8)
        ELSE IF opc = \h8B /\ modrm >= 0 /\ mod = 2 /\ rm = 4
                /\ At(bs, 4) = \h24 /\ Len(bs) >= 8
        THEN Decoded(Ins("MOV_REG_STACK", reg + 8 * rexR, RSP,
                         Imm32At(bs, 5), W64Zero), 8)
        ELSE IF opc = \h81 /\ modrm >= 0 /\ mod = 3 /\ reg \in {0, 5}
                /\ Len(bs) >= 7
        THEN Decoded(Ins(IF reg = 0 THEN "ADD_IMM" ELSE "SUB_IMM",
                         rm + 8 * rexB, 0, Imm32At(bs, 4), W64Zero), 7)
        ELSE IF opc = \hF7 /\ modrm >= 0 /\ mod = 3 /\ reg = 3
        THEN Decoded(Ins("NEG", rm + 8 * rexB, 0, 0, W64Zero), 3)
        ELSE IF opc = \hC7 /\ modrm >= 0 /\ mod = 3 /\ reg = 0
                /\ Len(bs) >= 7
        THEN Decoded(Ins("MOV_IMM32", rm + 8 * rexB, 0,
                         Imm32At(bs, 4), W64Zero), 7)
        ELSE IF opc >= \hB8 /\ opc <= \hBF /\ Len(bs) >= 10
        THEN Decoded(Ins("MOV_IMM64", (opc - \hB8) + 8 * rexB, 0, 0,
                         Imm64At(bs, 3)), 10)
        ELSE IF opc = \h0F /\ At(bs, 3) = \h4C /\ At(bs, 4) >= 192
        THEN Decoded(Ins("CMOVL", ((At(bs, 4) \div 8) % 8) + 8 * rexR,
                         (At(bs, 4) % 8) + 8 * rexB, 0, W64Zero), 4)
        ELSE Invalid

\* MOVSD after its F2 prefix; skip is 1 when a REX prefix follows the F2.
DecodeMovsd(bs, skip, rexR, rexB) ==
    LET modrm == At(bs, 4 + skip)
        mod == modrm \div 64
        reg == (modrm \div 8) % 8
        rm == modrm % 8
    IN  IF At(bs, 2 + skip) # \h0F \/ At(bs, 3 + skip) # \h10 \/ modrm < 0
        THEN Invalid
        ELSE IF mod = 3
        THEN Decoded(Ins("MOVSD", reg + 8 * rexR, rm + 8 * rexB, 0, W64Zero),
                     4 + skip)
        ELSE IF mod = 0 /\ rm = 5 /\ Len(bs) >= 8 + skip
        THEN Decoded(Ins("MOVSD_RIP", reg + 8 * rexR, 0,
                         Imm32At(bs, 5 + skip), W64Zero), 8 + skip)
        ELSE Invalid

\* The first instruction of a byte sequence and its length.
Decode(bs) ==
    LET b1 == At(bs, 1)
        b2 == At(bs, 2)
    IN  IF b1 = \hC3 THEN Decoded(Ins("RET", 0, 0, 0, W64Zero), 1)
        ELSE IF b1 >= \h50 /\ b1 <= \h57
        THEN Decoded(Ins("PUSH", b1 - \h50, 0, 0, W64Zero), 1)
        ELSE IF b1 >= \h58 /\ b1 <= \h5F
        THEN Decoded(Ins("POP", b1 - \h58, 0, 0, W64Zero), 1)
        ELSE IF b1 >= \h40 /\ b1 <= \h47 /\ b2 >= \h50 /\ b2 <= \h57
        THEN Decoded(Ins("PUSH", (b2 - \h50) + 8 * (b1 % 2), 0, 0, W64Zero), 2)
        ELSE IF b1 >= \h40 /\ b1 <= \h47 /\ b2 >= \h58 /\ b2 <= \h5F
        THEN Decoded(Ins("POP", (b2 - \h58) + 8 * (b1 % 2), 0, 0, W64Zero), 2)
        ELSE IF b1 >= \h48 /\ b1 <= \h4F
        THEN DecodeRexW(bs, (b1 \div 4) % 2, b1 % 2)
        ELSE IF b1 = \hF2 /\ b2 >= \h40 /\ b2 <= \h47
        THEN DecodeMovsd(bs, 1, (b2 \div 4) % 2, b2 % 2)
        ELSE IF b1 = \hF2
        THEN DecodeMovsd(bs, 0, 0, 0)
        ELSE Invalid

\* The instructions of a byte sequence, in order.
RECURSIVE DecodeAll(_)
DecodeAll(bs) ==
    IF bs = <<>> THEN <<>>
    ELSE LET d == Decode(bs)
         IN  <<d.ins>> \o DecodeAll(SubSeq(bs, d.len + 1, Len(bs)))

\* The effect of one register instruction on the machine.  The machine
\* holds the registers, SF, OF, and whether it met an instruction that is
\* not a register instruction (stopped).
Step(m, i) ==
    CASE i.op = "MOV" ->
            [m EXCEPT !.r[i.dst] = m.r[i.src]]
      [] i.op = "MOV_IMM32" ->
            [m EXCEPT !.r[i.dst] = i32_as_i64(i.imm32)]
      [] i.op = "MOV_IMM64" ->
            [m EXCEPT !.r[i.dst] = i.imm64]
      [] i.op = "ADD" ->
            LET v == WrappingAdd64(m.r[i.dst], m.r[i.src])
            IN  [m EXCEPT !.r[i.dst] = v, !.sf = IsNeg64(v),
                          !.of = AddOverflows64(m.r[i.dst], m.r[i.src])]
      [] i.op = "SUB" ->
            LET v == WrappingSub64(m.r[i.dst], m.r[i.src])
            IN  [m EXCEPT !.r[i.dst] = v, !.sf = IsNeg64(v),
                          !.of = SubOverflows64(m.r[i.dst], m.r[i.src])]
      [] i.op = "ADD_IMM" ->
            LET v == WrappingAdd64(m.r[i.dst], i32_as_i64(i.imm32))
            IN  [m EXCEPT !.r[i.dst] = v, !.sf = IsNeg64(v),
                          !.of = AddOverflows64(m.r[i.dst], i32_as_i64(i.imm32))]
      [] i.op = "SUB_IMM" ->
            LET v == WrappingSub64(m.r[i.dst], i32_as_i64(i.imm32))
            IN  [m EXCEPT !.r[i.dst] = v, !.sf = IsNeg64(v),
                          !.of = SubOverflows64(m.r[i.dst], i32_as_i64(i.imm32))]
      [] i.op = "NEG" ->
            LET v == WrappingNeg64(m.r[i.dst])
            IN  [m EXCEPT !.r[i.dst] = v, !.sf = IsNeg64(v),
                          !.of = (m.r[i.dst] = W64Min)]
      [] i.op = "CMOVL" ->
            IF m.sf # m.of THEN [m EXCEPT !.r[i.dst] = m.r[i.src]] ELSE m
      [] i.op = "PUSH" ->
            \* RSP goes down by 8; the value the register held before the
            \* instruction is stored at the new top of the stack.
            LET sp == WrappingSub64(m.r[RSP], <<0, 0, 0, 8>>)
            IN  [m EXCEPT !.r[RSP] = sp,
                          !.mem = [a \in DOMAIN m.mem \cup {sp} |->
                                      IF a = sp THEN m.r[i.dst] ELSE m.mem[a]],
                          !.pushes = @ + 1]
      [] i.op = "POP" ->
            \* The top of the stack is loaded after RSP went up by 8, so
            \* POP RSP leaves the loaded value.  A slot never written holds
            \* no defined value: the machine stops.
            LET sp == m.r[RSP]
                up == [m.r EXCEPT ![RSP] = WrappingAdd64(sp, <<0, 0, 0, 8>>)]
            IN  IF sp \notin DOMAIN m.mem THEN [m EXCEPT !.stopped = TRUE]
                ELSE [m EXCEPT !.r = [up EXCEPT ![i.dst] = m.mem[sp]],
                               !.pops = @ + 1]
      [] OTHER -> [m EXCEPT !.stopped = TRUE]

RECURSIVE Exec(_, _)
Exec(bs, m) ==
    IF bs = <<>> \/ m.stopped THEN m
    ELSE LET d == Decode(bs)
         IN  Exec(SubSeq(bs, d.len + 1, Len(bs)), Step(m, d.ins))

(***************************************************************************)
(* The calls made on the buffer.  A caller clears the buffer, makes a      *)
(* call, and may then run what was emitted (tests: buf.clear(); op(..)).   *)
(***************************************************************************)
\* No backend is allocating registers; no type has been lowered.
NoAlloc == [conv |-> "none", gp_free |-> <<>>, fp_free |-> <<>>,
            gp_used |-> <<>>, fp_used |-> <<>>]
NoLowering == [op |-> "none"]

NoCall ==
    [op |-> "none", pre |-> <<>>, prerelocs |-> <<>>, leaf |-> FALSE,
     saved |-> <<>>, imm32 |-> 0, imm64 |-> W64Zero, dst |-> 0, src1 |-> 0,
     src2 |-> 0, ok |-> TRUE, val |-> 0, overflow |-> FALSE,
     paired |-> FALSE]

Machine(file) == [r |-> file, sf |-> FALSE, of |-> FALSE,
                  stopped |-> FALSE, ran |-> FALSE,
                  mem |-> [a \in {} |-> W64Zero], pushes |-> 0, pops |-> 0]

\* The bytes the last call appended.
Emitted == SubSeq(buf, Len(last.pre) + 1, Len(buf))

\* The buffer is empty or holds only RET bytes: the next call may be made.
Idle == last.op \in {"none", "ret"}

(***************************************************************************)
(* Inputs.                                                                 *)
(***************************************************************************)
MaxSaved == 8

\* The registers X86_64WindowsFastcall::gp_callee_saved names, in its order.
CalleeSavedList == <<RBX, RBP, RSI, RSP, RDI, R12, R13, R14, R15>>

Reverse(s) == [i \in 1..Len(s) |-> s[Len(s) + 1 - i]]

\* Saved-register lists: the runs of CalleeSavedList, in either direction.
SavedLists ==
    LET runs == {SubSeq(CalleeSavedList, i, j) :
                    i \in 1..(Len(CalleeSavedList) + 1),
                    j \in 0..Len(CalleeSavedList)}
    IN  {s \in runs \cup {Reverse(t) : t \in runs} : Len(s) <= MaxSaved}

RequestedSizes ==
    {0, 1, 7, 8, 15, 16, 24, 4096, -1, -8, -9, -16, -24, I32_MIN,
     I32_MAX, I32_MAX - 1, I32_MAX - 7, I32_MAX - 8, I32_MAX - 15,
     I32_MAX - 16}

AlignedSizes == {0, 8, 16, 4096, -16, I32_MAX, I32_MIN}

\* Register contents: zero, small, negative, the extremes, a value whose
\* low limbs carry.
Vals ==
    <<W64Zero, <<0, 0, 0, 1>>, <<65535, 65535, 65535, 65535>>, W64Min,
      W64Max, <<0, 0, 65535, 65535>>, <<65535, 65535, 65535, 65531>>,
      <<0, 0, 0, 7>>>>

\* Entry register files: register r holds Vals[(r + shift) mod Len(Vals)].
Files ==
    {[r \in X86_64GPReg |-> Vals[((r + shift) % Len(Vals)) + 1]] :
        shift \in 0..(Len(Vals) - 1)}

\* i64 immediates: around both ends of the i32 range, and the tests' values.
Imm64Vals ==
    {W64Zero, <<0, 0, 0, 1>>, <<65535, 65535, 65535, 65535>>,
     i32_as_i64(I32_MAX), <<0, 0, 32768, 0>>,
     i32_as_i64(I32_MIN), <<65535, 65535, 32767, 65535>>,
     <<0, 0, \h1234, \h5678>>, <<\h1234, \h5678, \h9ABC, \hDEF0>>,
     W64Min, W64Max}

\* f64 immediates, as bit patterns: pi and -2.5.
F64Vals == {<<\h4009, \h21FB, \h5444, \h2D18>>, <<\hC004, 0, 0, 0>>}

(***************************************************************************)
(* Prolog and epilog calls.                                                *)
(***************************************************************************)
\* Entry register files of a function: every register holds a value of
\* its own; in the second the stack pointer is so low that the pushes wrap.
EntryFiles ==
    {[r \in X86_64GPReg |-> <<0, 0, r + 1, 16 * r>>],
     [r \in X86_64GPReg |-> <<0, 0, 0, 8 * r>>]}

InitStack ==
    /\ alloc = NoAlloc
    /\ lower = NoLowering
    /\ buf = <<>>
    /\ relocs = <<>>
    /\ last = NoCall
    /\ regs \in EntryFiles
    /\ cpu = Machine(regs)

SetupStack ==
    /\ last.op = "none"
    /\ \E leaf \in BOOLEAN, saved \in SavedLists, req \in RequestedSizes :
          LET res == x86_64_generic_setup_stack(buf, leaf, saved, req)
          IN  /\ buf' = res.buf
              /\ last' = [NoCall EXCEPT !.op = "setup_stack", !.pre = buf,
                                        !.leaf = leaf, !.saved = saved,
                                        !.imm32 = req, !.ok = res.ok,
                                        !.val = res.val,
                                        !.overflow = res.overflow]
    /\ UNCHANGED <<relocs, regs, cpu>>
    /\ UNCHANGED <<alloc, lower>>

\* The epilog of the function whose prolog was just emitted.
CleanupAfterSetup ==
    /\ last.op = "setup_stack"
    /\ last.ok
    /\ LET res == x86_64_generic_cleanup_stack(buf, last.leaf, last.saved,
                                               last.val)
       IN  /\ buf' = res.buf
           /\ last' = [last EXCEPT !.op = "cleanup_stack", !.pre = buf,
                                   !.imm32 = last.val, !.ok = res.ok,
                                   !.val = 0, !.paired = TRUE]
    /\ UNCHANGED <<relocs, regs, cpu>>
    /\ UNCHANGED <<alloc, lower>>

CleanupStack ==
    /\ last.op = "none"
    /\ \E leaf \in BOOLEAN, saved \in SavedLists, aligned \in AlignedSizes :
          LET res == x86_64_generic_cleanup_stack(buf, leaf, saved, aligned)
          IN  /\ buf' = res.buf
              /\ last' = [NoCall EXCEPT !.op = "cleanup_stack", !.pre = buf,
                                        !.leaf = leaf, !.saved = saved,
                                        !.imm32 = aligned, !.ok = res.ok]
    /\ UNCHANGED <<relocs, regs, cpu>>
    /\ UNCHANGED <<alloc, lower>>

\* buf.clear()
Clear ==
    /\ last.op # "none"
    /\ buf' = <<>>
    /\ relocs' = <<>>
    /\ last' = NoCall
    /\ cpu' = Machine(regs)
    /\ UNCHANGED regs
    /\ UNCHANGED <<alloc, lower>>

\* The function body between prolog and epilog: it overwrites the saved
\* registers it was given to use, and leaves the stack pointer where the
\* prolog put it.
Clobber(m, saved_regs) ==
    [m EXCEPT !.r = [r \in X86_64GPReg |->
                        IF r # RSP /\ \E i \in 1..Len(saved_regs) :
                                          saved_regs[i] = r
                        THEN <<\hDEAD, \hBEEF, r, r>>
                        ELSE m.r[r]]]

\* The processor runs the prolog, the body, and the epilog emitted for the
\* same function.
RunFrame ==
    /\ last.op = "cleanup_stack"
    /\ last.paired
    /\ ~cpu.ran
    /\ cpu' = [Exec(Emitted, Clobber(Exec(last.pre, cpu), last.saved))
                  EXCEPT !.ran = TRUE]
    /\ UNCHANGED <<buf, relocs, last, regs>>
    /\ UNCHANGED <<alloc, lower>>

NextStack ==
    SetupStack \/ CleanupAfterSetup \/ CleanupStack \/ RunFrame \/ Clear

SpecStack == InitStack /\ [][NextStack]_vars

(***************************************************************************)
(* Assembler calls, and running what they emitted.                         *)
(***************************************************************************)
InitAsm ==
    /\ alloc = NoAlloc
    /\ lower = NoLowering
    /\ buf = <<>>
    /\ relocs = <<>>
    /\ last = NoCall
    /\ regs \in Files
    /\ cpu = Machine(regs)

\* A call with a destination and up to two source registers.
RegCall(op, dst, src1, src2) ==
    [NoCall EXCEPT !.op = op, !.pre = buf, !.dst = dst, !.src1 = src1,
                   !.src2 = src2]

AbsRegReg ==
    /\ Idle
    /\ \E dst \in X86_64GPReg, src \in X86_64GPReg :
          /\ buf' = abs_reg64_reg64(buf, dst, src)
          /\ last' = RegCall("abs_reg64_reg64", dst, src, src)
    /\ UNCHANGED <<relocs, regs, cpu>>
    /\ UNCHANGED <<alloc, lower>>

AddRegRegReg ==
    /\ Idle
    /\ \E dst \in X86_64GPReg, src1 \in X86_64GPReg, src2 \in X86_64GPReg :
          /\ buf' = add_reg64_reg64_reg64(buf, dst, src1, src2)
          /\ last' = RegCall("add_reg64_reg64_reg64", dst, src1, src2)
    /\ UNCHANGED <<relocs, regs, cpu>>
    /\ UNCHANGED <<alloc, lower>>

SubRegRegReg ==
    /\ Idle
    /\ \E dst \in X86_64GPReg, src1 \in X86_64GPReg, src2 \in X86_64GPReg :
          /\ buf' = sub_reg64_reg64_reg64(buf, dst, src1, src2)
          /\ last' = RegCall("sub_reg64_reg64_reg64", dst, src1, src2)
    /\ UNCHANGED <<relocs, regs, cpu>>
    /\ UNCHANGED <<alloc, lower>>

MovRegImm64 ==
    /\ Idle
    /\ \E dst \in X86_64GPReg, imm \in Imm64Vals :
          /\ buf' = mov_reg64_imm64(buf, dst, imm)
          /\ last' = [NoCall EXCEPT !.op = "mov_reg64_imm64", !.pre = buf,
                                    !.dst = dst, !.imm64 = imm]
    /\ UNCHANGED <<relocs, regs, cpu>>
    /\ UNCHANGED <<alloc, lower>>

AddRegReg ==
    /\ Idle
    /\ \E dst \in X86_64GPReg, src \in X86_64GPReg :
          /\ buf' = add_reg64_reg64(buf, dst, src)
          /\ last' = RegCall("add_reg64_reg64", dst, src, src)
    /\ UNCHANGED <<relocs, regs, cpu>>
    /\ UNCHANGED <<alloc, lower>>

SubRegReg ==
    /\ Idle
    /\ \E dst \in X86_64GPReg, src \in X86_64GPReg :
          /\ buf' = sub_reg64_reg64(buf, dst, src)
          /\ last' = RegCall("sub_reg64_reg64", dst, src, src)
    /\ UNCHANGED <<relocs, regs, cpu>>
    /\ UNCHANGED <<alloc, lower>>

MovRegReg ==
    /\ Idle
    /\ \E dst \in X86_64GPReg, src \in X86_64GPReg :
          /\ buf' = mov_reg64_reg64(buf, dst, src)
          /\ last' = RegCall("mov_reg64_reg64", dst, src, src)
    /\ UNCHANGED <<relocs, regs, cpu>>
    /\ UNCHANGED <<alloc, lower>>

CmovlRegReg ==
    /\ Idle
    /\ \E dst \in X86_64GPReg, src \in X86_64GPReg :
          /\ buf' = cmovl_reg64_reg64(buf, dst, src)
          /\ last' = RegCall("cmovl_reg64_reg64", dst, src, src)
    /\ UNCHANGED <<relocs, regs, cpu>>
    /\ UNCHANGED <<alloc, lower>>

\* The processor runs the buffer from the entry register file.
Run ==
    /\ last.op # "none"
    /\ ~cpu.ran
    /\ cpu' = [Exec(buf, cpu) EXCEPT !.ran = TRUE]
    /\ UNCHANGED <<buf, relocs, last, regs>>
    /\ UNCHANGED <<alloc, lower>>

NextAsm ==
    \/ AbsRegReg
    \/ AddRegRegReg
    \/ SubRegRegReg
    \/ MovRegImm64
    \/ AddRegReg
    \/ SubRegReg
    \/ MovRegReg
    \/ CmovlRegReg
    \/ Run
    \/ Clear

SpecAsm == InitAsm /\ [][NextAsm]_vars

(***************************************************************************)
(* Floating-point constants: calls that record relocations, made on a      *)
(* buffer and a relocation list that already hold earlier output.          *)
(***************************************************************************)
MaxRelocs == 2
MaxPad == 2

InitReloc ==
    /\ alloc = NoAlloc
    /\ lower = NoLowering
    /\ buf = <<>>
    /\ relocs = <<>>
    /\ last = NoCall
    /\ regs = [r \in X86_64GPReg |-> W64Zero]
    /\ cpu = Machine(regs)

MovFregImm64 ==
    /\ Idle \/ last.op = "mov_freg64_imm64"
    /\ Len(relocs) < MaxRelocs
    /\ \E dst \in X86_64FPReg, imm \in F64Vals :
          LET res == mov_freg64_imm64(buf, relocs, dst, imm)
          IN  /\ buf' = res.buf
              /\ relocs' = res.relocs
              /\ last' = [NoCall EXCEPT !.op = "mov_freg64_imm64",
                                        !.pre = buf, !.prerelocs = relocs,
                                        !.dst = dst, !.imm64 = imm]
    /\ UNCHANGED <<regs, cpu>>
    /\ UNCHANGED <<alloc, lower>>

Ret ==
    /\ Idle
    /\ Len(buf) < MaxPad
    /\ buf' = ret(buf)
    /\ last' = [NoCall EXCEPT !.op = "ret", !.pre = buf, !.prerelocs = relocs]
    /\ UNCHANGED <<relocs, regs, cpu>>
    /\ UNCHANGED <<alloc, lower>>

NextReloc == MovFregImm64 \/ Ret \/ Clear

SpecReloc == InitReloc /\ [][NextReloc]_vars

(***************************************************************************)
(* Every emitter, called on a buffer that may already hold RET bytes.      *)
(***************************************************************************)
\* i32 immediates and RSP offsets: zero, small, negative, a value with four
\* different bytes, the extremes.
Imm32Vals == {0, 1, -1, \h12345678, I32_MIN, I32_MAX}

\* RIP-relative offsets (u32, here below 2^31).
RipOffsets == {0, 1, \h12345678, I32_MAX}

\* A call with a destination register and a 32-bit immediate or offset.
ImmCall(op, dst, src1, imm32) ==
    [NoCall EXCEPT !.op = op, !.pre = buf, !.dst = dst, !.src1 = src1,
                   !.src2 = src1, !.imm32 = imm32]

InitEnc ==
    /\ alloc = NoAlloc
    /\ lower = NoLowering
    /\ buf = <<>>
    /\ relocs = <<>>
    /\ last = NoCall
    /\ regs = [r \in X86_64GPReg |-> W64Zero]
    /\ cpu = Machine(regs)

AddRegImm32 ==
    /\ Idle
    /\ \E dst \in X86_64GPReg, imm \in Imm32Vals :
          /\ buf' = add_reg64_imm32(buf, dst, imm)
          /\ last' = ImmCall("add_reg64_imm32", dst, dst, imm)
    /\ UNCHANGED <<relocs, regs, cpu>>
    /\ UNCHANGED <<alloc, lower>>

SubRegImm32 ==
    /\ Idle
    /\ \E dst \in X86_64GPReg, imm \in Imm32Vals :
          /\ buf' = sub_reg64_imm32(buf, dst, imm)
          /\ last' = ImmCall("sub_reg64_imm32", dst, dst, imm)
    /\ UNCHANGED <<relocs, regs, cpu>>
    /\ UNCHANGED <<alloc, lower>>

MovRegImm32 ==
    /\ Idle
    /\ \E dst \in X86_64GPReg, imm \in Imm32Vals :
          /\ buf' = mov_reg64_imm32(buf, dst, imm)
          /\ last' = ImmCall("mov_reg64_imm32", dst, dst, imm)
    /\ UNCHANGED <<relocs, regs, cpu>>
    /\ UNCHANGED <<alloc, lower>>

AddRegRegImm32 ==
    /\ Idle
    /\ \E dst \in X86_64GPReg, src1 \in X86_64GPReg, imm \in Imm32Vals :
          /\ buf' = add_reg64_reg64_imm32(buf, dst, src1, imm)
          /\ last' = ImmCall("add_reg64_reg64_imm32", dst, src1, imm)
    /\ UNCHANGED <<relocs, regs, cpu>>
    /\ UNCHANGED <<alloc, lower>>

SubRegRegImm32 ==
    /\ Idle
    /\ \E dst \in X86_64GPReg, src1 \in X86_64GPReg, imm \in Imm32Vals :
          /\ buf' = sub_reg64_reg64_imm32(buf, dst, src1, imm)
          /\ last' = ImmCall("sub_reg64_reg64_imm32", dst, src1, imm)
    /\ UNCHANGED <<relocs, regs, cpu>>
    /\ UNCHANGED <<alloc, lower>>

NegReg ==
    /\ Idle
    /\ \E reg \in X86_64GPReg :
          /\ buf' = neg_reg64(buf, reg)
          /\ last' = RegCall("neg_reg64", reg, reg, reg)
    /\ UNCHANGED <<relocs, regs, cpu>>
    /\ UNCHANGED <<alloc, lower>>

MovRegStack ==
    /\ Idle
    /\ \E dst \in X86_64GPReg, offset \in Imm32Vals :
          /\ buf' = mov_reg64_stack32(buf, dst, offset)
          /\ last' = ImmCall("mov_reg64_stack32", dst, RSP, offset)
    /\ UNCHANGED <<relocs, regs, cpu>>
    /\ UNCHANGED <<alloc, lower>>

MovStackReg ==
    /\ Idle
    /\ \E offset \in Imm32Vals, src \in X86_64GPReg :
          /\ buf' = mov_stack32_reg64(buf, offset, src)
          /\ last' = ImmCall("mov_stack32_reg64", RSP, src, offset)
    /\ UNCHANGED <<relocs, regs, cpu>>
    /\ UNCHANGED <<alloc, lower>>

MovsdFregFreg ==
    /\ Idle
    /\ \E dst \in X86_64FPReg, src \in X86_64FPReg :
          /\ buf' = movsd_freg64_freg64(buf, dst, src)
          /\ last' = RegCall("movsd_freg64_freg64", dst, src, src)
    /\ UNCHANGED <<relocs, regs, cpu>>
    /\ UNCHANGED <<alloc, lower>>

MovsdFregRip ==
    /\ Idle
    /\ \E dst \in X86_64FPReg, offset \in RipOffsets :
          /\ buf' = movsd_freg64_rip_offset32(buf, dst, offset)
          /\ last' = ImmCall("movsd_freg64_rip_offset32", dst, dst, offset)
    /\ UNCHANGED <<relocs, regs, cpu>>
    /\ UNCHANGED <<alloc, lower>>

PushReg ==
    /\ Idle
    /\ \E reg \in X86_64GPReg :
          /\ buf' = push_reg64(buf, reg)
          /\ last' = RegCall("push_reg64", reg, reg, reg)
    /\ UNCHANGED <<relocs, regs, cpu>>
    /\ UNCHANGED <<alloc, lower>>

PopReg ==
    /\ Idle
    /\ \E reg \in X86_64GPReg :
          /\ buf' = pop_reg64(buf, reg)
          /\ last' = RegCall("pop_reg64", reg, reg, reg)
    /\ UNCHANGED <<relocs, regs, cpu>>
    /\ UNCHANGED <<alloc, lower>>

NextEnc ==
    \/ AddRegImm32
    \/ SubRegImm32
    \/ MovRegImm32
    \/ AddRegRegImm32
    \/ SubRegRegImm32
    \/ NegReg
    \/ MovRegStack
    \/ MovStackReg
    \/ MovsdFregFreg
    \/ MovsdFregRip
    \/ PushReg
    \/ PopReg
    \/ AbsRegReg
    \/ AddRegRegReg
    \/ SubRegRegReg
    \/ MovRegImm64
    \/ AddRegReg
    \/ SubRegReg
    \/ MovRegReg
    \/ CmovlRegReg
    \/ MovFregImm64
    \/ Ret
    \/ Clear

SpecEnc == InitEnc /\ [][NextEnc]_vars

(***************************************************************************)
(* Properties of the prolog and epilog.                                    *)
(***************************************************************************)
I(op, dst, src, imm32) == Ins(op, dst, src, imm32, W64Zero)

\* The stack sizes the alignment property is stated for.
ClaimedSizes == {0, 1, 7, 8, 15, 16}

FramePad(leaf) == IF leaf THEN 0 ELSE 16

\* C1: for the claimed requested sizes setup_stack returns Ok(aligned) with
\* aligned the smallest integer >= requested_stack_size that makes
\* 8 * |saved_regs| + aligned + (16 if not leaf) a multiple of 16; so
\* aligned >= requested and aligned - requested < 16.
C1_FrameAligned ==
    (last.op = "setup_stack" /\ last.imm32 \in ClaimedSizes) =>
        LET n == Len(last.saved)
            req == last.imm32
            aligned == last.val
        IN  /\ last.ok
            /\ (8 * n + aligned + FramePad(last.leaf)) % 16 = 0
            /\ aligned >= req
            /\ aligned - req < 16
            /\ \A x \in req..(aligned - 1) :
                  (8 * n + x + FramePad(last.leaf)) % 16 # 0

C1_Witness ==
    /\ last.op = "setup_stack"
    /\ ~last.leaf
    /\ Len(last.saved) = 3
    /\ last.imm32 = 7
    /\ last.ok
    /\ last.val = 8

\* The padding in 0..15 that 8 * n + req needs to reach a multiple of 16,
\* and none when 8 * n + req <= 0; computed without forming the sum.
ExpectedOffset(n, req) ==
    IF req > -(8 * n)
    THEN (16 - ((((8 * n) % 16) + (req % 16)) % 16)) % 16
    ELSE 0

\* C2: setup_stack returns Err exactly when requested_stack_size + offset
\* does not fit in an i32, Ok otherwise, and the 64-bit sum
\* 8 * |saved_regs| + requested_stack_size never overflows.
C2_ErrIffNoFit ==
    last.op = "setup_stack" =>
        /\ ~last.ok <=>
              last.imm32 > I32_MAX - ExpectedOffset(Len(last.saved), last.imm32)
        /\ ~last.overflow

C2_Witness ==
    /\ last.op = "setup_stack"
    /\ ~last.ok
    /\ last.imm32 = I32_MAX
    /\ Len(last.saved) = 1

RECURSIVE Pushes(_)
Pushes(saved) ==
    IF saved = <<>> THEN <<>>
    ELSE <<I("PUSH", Head(saved), 0, 0)>> \o Pushes(Tail(saved))

\* C3: the prolog is PUSH RBP; MOV RBP,RSP iff not leaf, then one PUSH per
\* saved register in vector order, then a single SUB RSP,aligned iff the
\* returned aligned_stack_size is > 0, and nothing else.
C3_PrologOrder ==
    last.op = "setup_stack" =>
        DecodeAll(Emitted) =
            (IF last.leaf THEN <<>>
             ELSE <<I("PUSH", RBP, 0, 0), I("MOV", RBP, RSP, 0)>>)
            \o Pushes(last.saved)
            \o (IF last.ok /\ last.val > 0
                THEN <<I("SUB_IMM", RSP, 0, last.val)>> ELSE <<>>)

C3_Witness ==
    /\ last.op = "setup_stack"
    /\ ~last.leaf
    /\ last.saved = <<R12, RDI, RSP>>
    /\ last.imm32 = 1
    /\ last.val = 8
    /\ Len(DecodeAll(Emitted)) = 6

RECURSIVE PopsReversed(_)
PopsReversed(saved) ==
    IF saved = <<>> THEN <<>>
    ELSE <<I("POP", saved[Len(saved)], 0, 0)>>
         \o PopsReversed(SubSeq(saved, 1, Len(saved) - 1))

\* The registers of the PUSH (or POP) instructions of a sequence, in order.
RegsOf(op, instrs) ==
    LET sel == SelectSeq(instrs, LAMBDA i : i.op = op)
    IN  [k \in 1..Len(sel) |-> sel[k].dst]

\* C4: the epilog is ADD RSP,aligned iff aligned_stack_size > 0, then one POP
\* per saved register in reverse vector order (the mirror of the prolog's
\* PUSHes), then MOV RSP,RBP; POP RBP iff not leaf; cleanup_stack returns Ok.
C4_EpilogOrder ==
    last.op = "cleanup_stack" =>
        /\ last.ok
        /\ DecodeAll(Emitted) =
              (IF last.imm32 > 0
               THEN <<I("ADD_IMM", RSP, 0, last.imm32)>> ELSE <<>>)
              \o PopsReversed(last.saved)
              \o (IF last.leaf THEN <<>>
                  ELSE <<I("MOV", RSP, RBP, 0), I("POP", RBP, 0, 0)>>)
        /\ last.pre # <<>> =>
              RegsOf("POP", DecodeAll(Emitted)) =
                  Reverse(RegsOf("PUSH", DecodeAll(last.pre)))

C4_Witness ==
    /\ last.op = "cleanup_stack"
    /\ ~last.leaf
    /\ last.saved = <<R12, RDI, RSP>>
    /\ last.imm32 = 8
    /\ last.pre # <<>>
    /\ Len(DecodeAll(Emitted)) = 6

(***************************************************************************)
(* Properties of the Assembler operations and of the encoders.             *)
(***************************************************************************)
\* |v| of a 64-bit signed value other than the minimum.
Abs64(v) == IF IsNeg64(v) THEN WrappingNeg64(v) ELSE v

\* C5: for every pair of registers dst and src, equal or distinct, and every
\* value v in src other than the minimum signed value, running what
\* abs_reg64_reg64(dst, src) emitted leaves |v| in dst.
C5_AbsAnyPair ==
    (last.op = "abs_reg64_reg64" /\ cpu.ran /\ regs[last.src1] # W64Min) =>
        cpu.r[last.dst] = Abs64(regs[last.src1])

\* The documented three bytes of ADD, SUB and MOV r64,r64.
RegRegBytes(opcode, dst, src) ==
    <<\h48 + (IF dst > 7 THEN 1 ELSE 0) + (IF src > 7 THEN 4 ELSE 0),
      opcode,
      \hC0 + (dst % 8) + ((src % 8) * 8)>>

\* C6: sub_reg64_reg64_reg64 emits only SUB dst,src2 when dst = src1 and
\* MOV dst,src1; SUB dst,src2 in every other case, dst = src2 included.
C6_SubNoShortcut ==
    last.op = "sub_reg64_reg64_reg64" =>
        /\ Emitted = IF last.dst = last.src1
                     THEN RegRegBytes(\h29, last.dst, last.src2)
                     ELSE RegRegBytes(\h89, last.dst, last.src1)
                          \o RegRegBytes(\h29, last.dst, last.src2)
        /\ DecodeAll(Emitted) =
              IF last.dst = last.src1
              THEN <<I("SUB", last.dst, last.src2, 0)>>
              ELSE <<I("MOV", last.dst, last.src1, 0),
                     I("SUB", last.dst, last.src2, 0)>>

C6_Witness ==
    /\ last.op = "sub_reg64_reg64_reg64"
    /\ last.dst = last.src2
    /\ last.dst # last.src1
    /\ Len(DecodeAll(Emitted)) = 2

\* C7: add_reg64_reg64_reg64 emits ADD dst,src2 when dst = src1, ADD dst,src1
\* when dst = src2 # src1, and MOV dst,src1; ADD dst,src2 otherwise; run, the
\* sequence leaves dst = src1 + src2 modulo 2^64.
C7_AddThreeCases ==
    last.op = "add_reg64_reg64_reg64" =>
        /\ Emitted = IF last.dst = last.src1
                     THEN RegRegBytes(\h01, last.dst, last.src2)
                     ELSE IF last.dst = last.src2
                     THEN RegRegBytes(\h01, last.dst, last.src1)
                     ELSE RegRegBytes(\h89, last.dst, last.src1)
                          \o RegRegBytes(\h01, last.dst, last.src2)
        /\ cpu.ran =>
              cpu.r[last.dst] = WrappingAdd64(regs[last.src1], regs[last.src2])

C7_Witness ==
    /\ last.op = "add_reg64_reg64_reg64"
    /\ last.dst = last.src2
    /\ last.dst # last.src1
    /\ cpu.ran
    /\ regs[last.src1] = W64Max
    /\ regs[last.src2] = <<0, 0, 0, 1>>
    /\ cpu.r[last.dst] = W64Min

\* Whether a 64-bit value is the sign extension of its low 32 bits.
FitsI32(w) ==
    \/ w[1] = 0 /\ w[2] = 0 /\ w[3] < 32768
    \/ w[1] = 65535 /\ w[2] = 65535 /\ w[3] >= 32768

\* Whether bytes bs[from..] hold, little-endian, the limbs ws (least
\* significant limb last in ws).
HoldsLimbsLE(bs, from, ws) ==
    \A j \in 1..Len(ws) :
        bs[from + 2 * (j - 1)] + 256 * bs[from + 2 * (j - 1) + 1]
            = ws[Len(ws) + 1 - j]

\* C9: mov_reg64_imm64 emits the 7-byte form REX.W+B, C7, C0+dst%8, imm32 LE
\* exactly when imm fits an i32 (both ends included), otherwise the 10-byte
\* form REX.W+B, B8+dst%8, imm64 LE; either loads imm into dst.
C9_MovImmForm ==
    last.op = "mov_reg64_imm64" =>
        LET rex == \h48 + (IF last.dst > 7 THEN 1 ELSE 0)
            imm == last.imm64
        IN  /\ FitsI32(imm) =>
                  /\ Len(Emitted) = 7
                  /\ SubSeq(Emitted, 1, 3) = <<rex, \hC7, \hC0 + (last.dst % 8)>>
                  /\ HoldsLimbsLE(Emitted, 4, <<imm[3], imm[4]>>)
            /\ ~FitsI32(imm) =>
                  /\ Len(Emitted) = 10
                  /\ SubSeq(Emitted, 1, 2) = <<rex, \hB8 + (last.dst % 8)>>
                  /\ HoldsLimbsLE(Emitted, 3, imm)
            /\ cpu.ran => cpu.r[last.dst] = imm

C9_Witness ==
    /\ last.op = "mov_reg64_imm64"
    /\ last.imm64 = i32_as_i64(I32_MIN)
    /\ last.dst = R15
    /\ Len(Emitted) = 7
    /\ cpu.ran
    /\ cpu.r[R15] = <<65535, 65535, 32768, 0>>

\* C10: ADD, SUB and MOV r64,r64 emit [48 + (1 if dst>7) + (4 if src>7),
\* opcode, C0 + dst%8 + ((src%8)<<3)] with opcodes 01, 29, 89; CMOVL emits
\* [48 + (4 if dst>7) + (1 if src>7), 0F, 4C, C0 + ((dst%8)<<3) + src%8].
C10_RegRegEncodings ==
    /\ last.op = "add_reg64_reg64" =>
          Emitted = RegRegBytes(\h01, last.dst, last.src1)
    /\ last.op = "sub_reg64_reg64" =>
          Emitted = RegRegBytes(\h29, last.dst, last.src1)
    /\ last.op = "mov_reg64_reg64" =>
          Emitted = RegRegBytes(\h89, last.dst, last.src1)
    /\ last.op = "cmovl_reg64_reg64" =>
          Emitted = <<\h48 + (IF last.dst > 7 THEN 4 ELSE 0)
                           + (IF last.src1 > 7 THEN 1 ELSE 0),
                      \h0F, \h4C,
                      \hC0 + ((last.dst % 8) * 8) + (last.src1 % 8)>>

C10_Witness ==
    /\ last.op = "cmovl_reg64_reg64"
    /\ last.dst = RAX
    /\ last.src1 = R15
    /\ Emitted = <<\h49, \h0F, \h4C, \hC7>>

(***************************************************************************)
(* Properties of the relocation recording.                                 *)
(***************************************************************************)
\* C8: whatever the buffer and the relocation list held, mov_freg64_imm64
\* appends MOVSD dst,[RIP+0] and exactly one relocation, leaving the earlier
\* ones unchanged; the relocation's offset is the buffer length after the
\* call minus 4, the index of the first byte of the zeroed displacement, and
\* its data is the 8 little-endian bytes of imm.
C8_RelocAtDisplacement ==
    last.op = "mov_freg64_imm64" =>
        LET n == Len(last.prerelocs)
            opc == IF last.dst > 7
                   THEN <<\hF2, \h44, \h0F, \h10, \h05 + ((last.dst % 8) * 8)>>
                   ELSE <<\hF2, \h0F, \h10, \h05 + ((last.dst % 8) * 8)>>
        IN  /\ buf = (last.pre \o opc) \o <<0, 0, 0, 0>>
            /\ Len(relocs) = n + 1
            /\ SubSeq(relocs, 1, n) = last.prerelocs
            /\ relocs[n + 1].offset = Len(buf) - 4
            /\ relocs[n + 1].offset = Len(last.pre) + Len(opc)
            /\ Len(relocs[n + 1].data) = 8
            /\ HoldsLimbsLE(relocs[n + 1].data, 1, last.imm64)

C8_Witness ==
    /\ last.op = "mov_freg64_imm64"
    /\ last.dst = 15
    /\ Len(last.pre) = 9
    /\ Len(last.prerelocs) = 1
    /\ last.prerelocs[1].offset = 5
    /\ last.imm64 = <<\h4009, \h21FB, \h5444, \h2D18>>
    /\ relocs[2] = [offset |-> 14,
                    data |-> <<\h18, \h2D, \h44, \h54, \hFB, \h21, \h09, \h40>>]


(***************************************************************************)
(* Properties of the encodings of single instructions.                     *)
(***************************************************************************)
\* C11: for every general-purpose register r, PUSH r emits the single byte
\* 0x50 + r % 8 when r is one of the low eight registers and the two bytes
\* 0x41, 0x50 + r % 8 when it is one of the high eight; POP r emits
\* 0x58 + r % 8, respectively 0x41, 0x58 + r % 8.  No REX prefix is emitted
\* for the low eight registers.
C11_PushPopEncodings ==
    LET r == last.dst
        base == IF last.op = "push_reg64" THEN \h50 ELSE \h58
    IN  last.op \in {"push_reg64", "pop_reg64"} =>
            Emitted = IF r <= 7 THEN <<base + (r % 8)>>
                                ELSE <<\h41, base + (r % 8)>>

C11_Witness ==
    /\ last.op = "pop_reg64" /\ last.dst = R15 /\ Emitted = <<\h41, \h5F>>
    /\ last.pre # <<>>

\* The primitives of the instruction table and the instruction each request
\* asks for: mnemonic, operand identifiers, immediate.
Primitives ==
    {"add_reg64_imm32", "sub_reg64_imm32", "mov_reg64_imm32",
     "add_reg64_reg64", "sub_reg64_reg64", "mov_reg64_reg64", "neg_reg64",
     "cmovl_reg64_reg64", "mov_reg64_imm64", "mov_reg64_stack32",
     "mov_stack32_reg64", "movsd_freg64_freg64",
     "movsd_freg64_rip_offset32", "push_reg64", "pop_reg64", "ret"}

Requested(c) ==
    CASE c.op = "add_reg64_imm32" -> I("ADD_IMM", c.dst, 0, c.imm32)
      [] c.op = "sub_reg64_imm32" -> I("SUB_IMM", c.dst, 0, c.imm32)
      [] c.op = "mov_reg64_imm32" -> I("MOV_IMM32", c.dst, 0, c.imm32)
      [] c.op = "add_reg64_reg64" -> I("ADD", c.dst, c.src1, 0)
      [] c.op = "sub_reg64_reg64" -> I("SUB", c.dst, c.src1, 0)
      [] c.op = "mov_reg64_reg64" -> I("MOV", c.dst, c.src1, 0)
      [] c.op = "neg_reg64" -> I("NEG", c.dst, 0, 0)
      [] c.op = "cmovl_reg64_reg64" -> I("CMOVL", c.dst, c.src1, 0)
      [] c.op = "mov_reg64_imm64" -> Ins("MOV_IMM64", c.dst, 0, 0, c.imm64)
      [] c.op = "mov_reg64_stack32" ->
            I("MOV_REG_STACK", c.dst, RSP, c.imm32)
      [] c.op = "mov_stack32_reg64" ->
            I("MOV_STACK_REG", RSP, c.src1, c.imm32)
      [] c.op = "movsd_freg64_freg64" -> I("MOVSD", c.dst, c.src1, 0)
      [] c.op = "movsd_freg64_rip_offset32" ->
            I("MOVSD_RIP", c.dst, 0, c.imm32)
      [] c.op = "push_reg64" -> I("PUSH", c.dst, 0, 0)
      [] c.op = "pop_reg64" -> I("POP", c.dst, 0, 0)
      [] OTHER -> I("RET", 0, 0, 0)

\* MOV r64, imm64 is requested in its long form: the immediate is outside
\* the i32 range.
LongFormOnly(c) == c.op = "mov_reg64_imm64" => ~FitsI32(c.imm64)

\* C12: over all primitives of the instruction table and all register
\* operands and immediates, decoding the emitted bytes by the documented
\* patterns returns the requested mnemonic, operand identifiers and
\* immediate, and consumes exactly the emitted bytes; so two different
\* requests never produce the same byte sequence.
C12_DecodeReturnsRequest ==
    (last.op \in Primitives /\ LongFormOnly(last)) =>
        Decode(Emitted) = Decoded(Requested(last), Len(Emitted))

C12_Witness ==
    /\ last.op = "movsd_freg64_freg64" /\ last.dst = 15 /\ last.src1 = 0
    /\ Decode(Emitted).ins = I("MOVSD", 15, 0, 0)

(***************************************************************************)
(* The emitters and the buffer they are given.                             *)
(***************************************************************************)
\* The call c made again, on the buffer b.
EmitOn(b, c) ==
    CASE c.op = "add_reg64_imm32" -> add_reg64_imm32(b, c.dst, c.imm32)
      [] c.op = "sub_reg64_imm32" -> sub_reg64_imm32(b, c.dst, c.imm32)
      [] c.op = "mov_reg64_imm32" -> mov_reg64_imm32(b, c.dst, c.imm32)
      [] c.op = "add_reg64_reg64_imm32" ->
            add_reg64_reg64_imm32(b, c.dst, c.src1, c.imm32)
      [] c.op = "sub_reg64_reg64_imm32" ->
            sub_reg64_reg64_imm32(b, c.dst, c.src1, c.imm32)
      [] c.op = "neg_reg64" -> neg_reg64(b, c.dst)
      [] c.op = "mov_reg64_stack32" -> mov_reg64_stack32(b, c.dst, c.imm32)
      [] c.op = "mov_stack32_reg64" -> mov_stack32_reg64(b, c.imm32, c.src1)
      [] c.op = "movsd_freg64_freg64" ->
            movsd_freg64_freg64(b, c.dst, c.src1)
      [] c.op = "movsd_freg64_rip_offset32" ->
            movsd_freg64_rip_offset32(b, c.dst, c.imm32)
      [] c.op = "push_reg64" -> push_reg64(b, c.dst)
      [] c.op = "pop_reg64" -> pop_reg64(b, c.dst)
      [] c.op = "abs_reg64_reg64" -> abs_reg64_reg64(b, c.dst, c.src1)
      [] c.op = "add_reg64_reg64_reg64" ->
            add_reg64_reg64_reg64(b, c.dst, c.src1, c.src2)
      [] c.op = "sub_reg64_reg64_reg64" ->
            sub_reg64_reg64_reg64(b, c.dst, c.src1, c.src2)
      [] c.op = "mov_reg64_imm64" -> mov_reg64_imm64(b, c.dst, c.imm64)
      [] c.op = "add_reg64_reg64" -> add_reg64_reg64(b, c.dst, c.src1)
      [] c.op = "sub_reg64_reg64" -> sub_reg64_reg64(b, c.dst, c.src1)
      [] c.op = "mov_reg64_reg64" -> mov_reg64_reg64(b, c.dst, c.src1)
      [] c.op = "cmovl_reg64_reg64" -> cmovl_reg64_reg64(b, c.dst, c.src1)
      [] c.op = "mov_freg64_imm64" ->
            mov_freg64_imm64(b, <<>>, c.dst, c.imm64).buf
      [] c.op = "ret" -> ret(b)
      [] OTHER -> b

\* C17: every emitter operation is append-only and context-free: after the
\* call the buffer is the buffer before the call, unchanged, followed by the
\* emitted bytes, and the emitted bytes are those the same call emits on an
\* empty buffer; only the relocation offset recorded by mov_freg64_imm64
\* depends on the length of the buffer before the call.
C17_AppendOnly ==
    last.op # "none" =>
        /\ buf = last.pre \o EmitOn(<<>>, last)
        /\ last.op = "mov_freg64_imm64" =>
              relocs[Len(relocs)].offset =
                  Len(last.pre) + Len(EmitOn(<<>>, last)) - 4

C17_Witness ==
    /\ last.op = "movsd_freg64_rip_offset32" /\ last.imm32 = 1
    /\ last.pre = <<\hC3, \hC3>>
    /\ Len(Emitted) = 8

(***************************************************************************)
(* The value setup_stack returns.                                          *)
(***************************************************************************)
\* requested_stack_size + offset fits in an i32.
SumFits(n, req) == req <= I32_MAX - ExpectedOffset(n, req)

\* C18 as stated: for every leaf flag, saved-register list and 32-bit
\* requested_stack_size, negative and zero included, for which
\* requested_stack_size + offset fits in an i32, setup_stack returns exactly
\* requested_stack_size + offset.
C18_ReturnsSum ==
    (last.op = "setup_stack" /\ SumFits(Len(last.saved), last.imm32)) =>
        /\ last.ok
        /\ last.val = last.imm32 + ExpectedOffset(Len(last.saved), last.imm32)

\* C18 as the code has it: setup_stack returns requested_stack_size + offset
\* when that sum is positive, and 0 when the sum is zero or negative.
C18_ReturnsSumOrZero ==
    (last.op = "setup_stack" /\ SumFits(Len(last.saved), last.imm32)) =>
        LET sum == last.imm32 + ExpectedOffset(Len(last.saved), last.imm32)
        IN  /\ last.ok
            /\ last.val = IF sum > 0 THEN sum ELSE 0

C18_Witness ==
    /\ last.op = "setup_stack" /\ last.ok
    /\ last.imm32 = -24 /\ Len(last.saved) = 1
    /\ last.val = 0

(***************************************************************************)
(* Running the three-address subtraction.                                  *)
(***************************************************************************)
\* C20: for every triple (dst, src1, src2), dst = src2 # src1 included,
\* running what sub_reg64_reg64_reg64 emitted leaves in dst the value src1
\* held on entry minus the value src2 held on entry, modulo 2^64.
C20_SubAnyTriple ==
    (last.op = "sub_reg64_reg64_reg64" /\ cpu.ran) =>
        cpu.r[last.dst] = WrappingSub64(regs[last.src1], regs[last.src2])

(***************************************************************************)
(* The calling conventions' default free registers.  A backend starts with *)
(* its convention's vectors and takes the next register to use with pop.   *)
(* Floating-point registers are the ordinals of XMM0..XMM15.               *)
(***************************************************************************)
CallConvs == {"X86_64SystemV", "X86_64WindowsFastcall"}

GP_DEFAULT_FREE_REGS(conv) ==
    IF conv = "X86_64SystemV"
    THEN <<RBX, R12, R13, R14, R15,
           RAX, RCX, RDX, RSI, RDI, R8, R9, R10, R11>>
    ELSE <<RBX, RSI, RDI, R12, R13, R14, R15,
           RAX, RCX, RDX, R8, R9, R10, R11>>

FP_DEFAULT_FREE_REGS(conv) ==
    IF conv = "X86_64SystemV"
    THEN <<15, 14, 13, 12, 11, 10, 9, 8, 7, 6, 5, 4, 3, 2, 1, 0>>
    ELSE <<15, 15, 13, 12, 11, 10, 9, 8, 7, 6, 5, 4, 3, 2, 1, 0>>

gp_callee_saved(conv, reg) ==
    IF conv = "X86_64SystemV"
    THEN reg \in {RBX, RBP, R12, R13, R14, R15}
    ELSE reg \in {RBX, RBP, RSI, RSP, RDI, R12, R13, R14, R15}

fp_callee_saved(conv, reg) ==
    IF conv = "X86_64SystemV"
    THEN FALSE
    ELSE reg \in {0, 1, 2, 3, 4, 5}

InitFree ==
    /\ alloc = NoAlloc
    /\ lower = NoLowering
    /\ buf = <<>>
    /\ relocs = <<>>
    /\ last = NoCall
    /\ regs = [r \in X86_64GPReg |-> W64Zero]
    /\ cpu = Machine(regs)

\* A backend is made for a calling convention: its free vectors are the
\* convention's defaults.
NewBackend ==
    /\ alloc.conv = "none"
    /\ \E conv \in CallConvs :
          alloc' = [conv |-> conv,
                    gp_free |-> GP_DEFAULT_FREE_REGS(conv),
                    fp_free |-> FP_DEFAULT_FREE_REGS(conv),
                    gp_used |-> <<>>, fp_used |-> <<>>]
    /\ UNCHANGED <<buf, relocs, last, regs, cpu, lower>>

\* gp_free_regs.pop()
ClaimGPReg ==
    /\ alloc.conv # "none"
    /\ alloc.gp_free # <<>>
    /\ alloc' = [alloc EXCEPT
                    !.gp_free = SubSeq(@, 1, Len(@) - 1),
                    !.gp_used = Append(@, alloc.gp_free[Len(alloc.gp_free)])]
    /\ UNCHANGED <<buf, relocs, last, regs, cpu, lower>>

\* fp_free_regs.pop()
ClaimFPReg ==
    /\ alloc.conv # "none"
    /\ alloc.fp_free # <<>>
    /\ alloc' = [alloc EXCEPT
                    !.fp_free = SubSeq(@, 1, Len(@) - 1),
                    !.fp_used = Append(@, alloc.fp_free[Len(alloc.fp_free)])]
    /\ UNCHANGED <<buf, relocs, last, regs, cpu, lower>>

NextFree == NewBackend \/ ClaimGPReg \/ ClaimFPReg

SpecFree == InitFree /\ [][NextFree]_vars

(***************************************************************************)
(* Properties of the free-register vectors.                                *)
(***************************************************************************)
\* No register at an earlier place of the sequence is callee-saved while a
\* register at a later place is caller-saved.
CallerSavedFirst(taken, IsCalleeSaved(_)) ==
    \A i \in 1..Len(taken), j \in 1..Len(taken) :
        (i < j) => ~(IsCalleeSaved(taken[i]) /\ ~IsCalleeSaved(taken[j]))

\* C13: in each default free-register vector every register the same
\* convention's callee-saved predicate reports as callee-saved sits below
\* every register it reports as caller-saved, so popping from the end hands
\* out every caller-saved register before any callee-saved one.
C13_CallerSavedPoppedFirst ==
    alloc.conv # "none" =>
        LET GpSaved(r) == gp_callee_saved(alloc.conv, r)
            FpSaved(r) == fp_callee_saved(alloc.conv, r)
        IN  /\ CallerSavedFirst(alloc.gp_used, GpSaved)
            /\ CallerSavedFirst(alloc.fp_used, FpSaved)

\* C14: the floating-point default free-register vector of each calling
\* convention lists each of XMM0..XMM15 exactly once, so popping never hands
\* out the same register twice and, once the vector is empty, has handed out
\* every one of them.
C14_EachXmmOnce ==
    alloc.conv # "none" =>
        /\ \A i \in 1..Len(alloc.fp_used), j \in 1..Len(alloc.fp_used) :
              (i # j) => alloc.fp_used[i] # alloc.fp_used[j]
        /\ alloc.fp_free = <<>> =>
              {alloc.fp_used[i] : i \in 1..Len(alloc.fp_used)} = X86_64FPReg

(***************************************************************************)
(* Type lowering: layouts to target basic types.  A layout is a record     *)
(* with its case in k; a target type is a record with its kind in t.  A    *)
(* panic anywhere in a call unwinds through it, so a type built from a     *)
(* panicked part is the panic.                                             *)
(***************************************************************************)
Panicked == [t |-> "panic"]

\* context.i64_type(), context.bool_type(), ...
int_type(bits) == [t |-> "int", bits |-> bits]
\* context.f64_type(), ...
float_type(bits) == [t |-> "float", bits |-> bits]

\* ty.ptr_type(AddressSpace::Generic)
ptr_type(ty) ==
    IF ty = Panicked THEN Panicked ELSE [t |-> "ptr", to |-> ty]

\* ty.array_type(size)
array_type(ty, size) ==
    IF ty = Panicked THEN Panicked
    ELSE [t |-> "array", of |-> ty, size |-> size]

\* context.struct_type(field_types, packed)
struct_type(field_types, packed) ==
    IF \E i \in 1..Len(field_types) : field_types[i] = Panicked
    THEN Panicked
    ELSE [t |-> "struct", fields |-> field_types, packed |-> packed]

\* typ.fn_type(arg_types, false)
get_fn_type(bt_enum, arg_types) ==
    IF \/ bt_enum = Panicked
       \/ \E i \in 1..Len(arg_types) : arg_types[i] = Panicked
    THEN Panicked
    ELSE [t |-> "fn", ret |-> bt_enum, params |-> arg_types,
          variadic |-> FALSE]

\* env.module.get_struct_type(name).unwrap()
get_struct_type(env, name) ==
    IF name \in env.module THEN [t |-> "named", name |-> name] ELSE Panicked

zig_dict_type(env) == get_struct_type(env, "dict.RocDict")
zig_list_type(env) == get_struct_type(env, "list.RocList")
zig_str_type(env) == get_struct_type(env, "str.RocStr")

ptr_int(ptr_bytes) ==
    CASE ptr_bytes = 1 -> int_type(8)
      [] ptr_bytes = 2 -> int_type(16)
      [] ptr_bytes = 4 -> int_type(32)
      [] ptr_bytes = 8 -> int_type(64)
      [] OTHER -> Panicked

basic_type_from_builtin(env, builtin) ==
    CASE builtin = "Int128" -> int_type(128)
      [] builtin = "Int64" -> int_type(64)
      [] builtin = "Int32" -> int_type(32)
      [] builtin = "Int16" -> int_type(16)
      [] builtin = "Int8" -> int_type(8)
      [] builtin = "Int1" -> int_type(1)
      [] builtin = "Usize" -> ptr_int(env.ptr_bytes)
      [] builtin = "Float128" -> float_type(128)
      [] builtin = "Float64" -> float_type(64)
      [] builtin = "Float32" -> float_type(32)
      [] builtin = "Float16" -> float_type(16)
      [] builtin \in {"Dict", "EmptyDict"} -> zig_dict_type(env)
      [] builtin \in {"Set", "EmptySet"} -> zig_dict_type(env)
      [] builtin \in {"List", "EmptyList"} -> zig_list_type(env)
      [] builtin \in {"Str", "EmptyStr"} -> zig_str_type(env)

\* Layout::stack_size(pointer_size): the bytes a value of the layout takes.
RECURSIVE stack_size(_, _)
stack_size(layout, pointer_size) ==
    LET total(fields) ==
            LET acc[i \in 0..Len(fields)] ==
                    IF i = 0 THEN 0
                    ELSE acc[i - 1] + stack_size(fields[i], pointer_size)
            IN  acc[Len(fields)]
        largest(tags) ==
            LET acc[i \in 0..Len(tags)] ==
                    IF i = 0 THEN 0
                    ELSE IF total(tags[i]) > acc[i - 1] THEN total(tags[i])
                    ELSE acc[i - 1]
            IN  acc[Len(tags)]
    IN  CASE layout.k = "Builtin" ->
                (CASE layout.builtin \in {"Int128", "Float128"} -> 16
                   [] layout.builtin \in {"Int64", "Float64"} -> 8
                   [] layout.builtin \in {"Int32", "Float32"} -> 4
                   [] layout.builtin \in {"Int16", "Float16"} -> 2
                   [] layout.builtin \in {"Int8", "Int1"} -> 1
                   [] layout.builtin = "Usize" -> pointer_size
                   [] layout.builtin \in {"Str", "EmptyStr", "List",
                                          "EmptyList"} -> 2 * pointer_size
                   [] OTHER -> 6 * pointer_size)
          [] layout.k = "PhantomEmptyStruct" -> 0
          [] layout.k = "Struct" -> total(layout.fields)
          [] layout.k = "Union" /\ layout.variant = "NonRecursive" ->
                largest(layout.tags)
          [] layout.k = "Closure" ->
                pointer_size + stack_size(layout.closure_layout.block,
                                          pointer_size)
          [] OTHER -> pointer_size

\* ClosureLayout::as_block_of_memory_layout(): the layout of the captured
\* data.
as_block_of_memory_layout(closure_layout) == closure_layout.block

block_of_memory_help_always_bytes(union_size) ==
    LET num_i64 == union_size \div 8
        num_i8 == union_size % 8
        i64_array_type == array_type(int_type(64), num_i64)
        i8_array_type == array_type(int_type(8), num_i8)
    IN  struct_type(<<i64_array_type, i8_array_type>>, FALSE)
block_of_memory_help(union_size) ==
    LET num_i64 == union_size \div 8
        num_i8 == union_size % 8
        i64_array_type == array_type(int_type(64), num_i64)
    IN  IF num_i8 = 0
        THEN struct_type(<<i64_array_type>>, FALSE)
        ELSE LET i8_array_type == array_type(int_type(8), num_i8)
             IN  struct_type(<<i64_array_type, i8_array_type>>, FALSE)

\* for tag in layouts { total = 0; for layout in tag { total += size };
\* union_size = union_size.max(total) }
block_of_memory_slices(layouts, ptr_bytes) ==
    LET total(tag) ==
            LET acc[i \in 0..Len(tag)] ==
                    IF i = 0 THEN 0
                    ELSE acc[i - 1] + stack_size(tag[i], ptr_bytes)
            IN  acc[Len(tag)]
        union_size[i \in 0..Len(layouts)] ==
            IF i = 0 THEN 0
            ELSE IF total(layouts[i]) > union_size[i - 1]
            THEN total(layouts[i]) ELSE union_size[i - 1]
    IN  block_of_memory_help(union_size[Len(layouts)])

block_of_memory(layout, ptr_bytes) ==
    block_of_memory_help(stack_size(layout, ptr_bytes))

RECURSIVE basic_type_from_layout(_, _)

\* closure_type is an Option: <<>> is None, <<ty>> is Some(ty).
basic_type_from_function_layout_closure_first(env, args, closure_type, ret_layout) ==
    LET ret_type == basic_type_from_layout(env, ret_layout)
        arg_basic_types ==
            [i \in 1..Len(args) |-> basic_type_from_layout(env, args[i])]
        fn_type == get_fn_type(ret_type, closure_type \o arg_basic_types)
    IN  ptr_type(fn_type)
basic_type_from_function_layout(env, args, closure_type, ret_layout) ==
    LET ret_type == basic_type_from_layout(env, ret_layout)
        arg_basic_types ==
            [i \in 1..Len(args) |-> basic_type_from_layout(env, args[i])]
        fn_type == get_fn_type(ret_type, arg_basic_types \o closure_type)
    IN  ptr_type(fn_type)

basic_type_from_record(env, fields) ==
    struct_type([i \in 1..Len(fields) |->
                    basic_type_from_layout(env, fields[i])], FALSE)

basic_type_from_layout(env, layout) ==
    CASE layout.k = "FunctionPointer" ->
            basic_type_from_function_layout(env, layout.args, <<>>,
                                            layout.ret_layout)
      [] layout.k = "Closure" ->
            LET closure_data_layout ==
                    as_block_of_memory_layout(layout.closure_layout)
                closure_data ==
                    basic_type_from_layout(env, closure_data_layout)
                function_pointer ==
                    basic_type_from_function_layout(
                        env, layout.args, <<closure_data>>,
                        layout.ret_layout)
            IN  struct_type(<<function_pointer, closure_data>>, FALSE)
      [] layout.k = "Pointer" ->
            ptr_type(basic_type_from_layout(env, layout.inner))
      [] layout.k = "PhantomEmptyStruct" -> struct_type(<<>>, FALSE)
      [] layout.k = "Struct" -> basic_type_from_record(env, layout.fields)
      [] layout.k = "Union" ->
            (CASE layout.variant \in {"Recursive", "NullableWrapped"} ->
                    ptr_type(block_of_memory_slices(layout.tags,
                                                    env.ptr_bytes))
               [] layout.variant = "NullableUnwrapped" ->
                    \* &other_fields[1..] panics when the slice is empty
                    IF Len(layout.other_fields) < 1 THEN Panicked
                    ELSE ptr_type(block_of_memory_slices(
                            <<Tail(layout.other_fields)>>, env.ptr_bytes))
               [] layout.variant = "NonNullableUnwrapped" ->
                    ptr_type(block_of_memory_slices(<<layout.fields>>,
                                                    env.ptr_bytes))
               [] layout.variant = "NonRecursive" ->
                    block_of_memory(layout, env.ptr_bytes))
      [] layout.k = "RecursivePointer" -> ptr_type(int_type(64))
      [] layout.k = "Builtin" ->
            basic_type_from_builtin(env, layout.builtin)

(***************************************************************************)
(* Layouts and environments lowered.                                       *)
(***************************************************************************)
MaxFields == 2

\* Sequences over S of length at most n.
SeqsUpTo(S, n) == UNION {[1..m -> S] : m \in 0..n}

Builtins ==
    {"Int128", "Int64", "Int32", "Int16", "Int8", "Int1", "Usize",
     "Float128", "Float64", "Float32", "Float16", "Dict", "EmptyDict",
     "Set", "EmptySet", "List", "EmptyList", "Str", "EmptyStr"}

AllContainers == {"dict.RocDict", "list.RocList", "str.RocStr"}

\* Environments: the supported pointer widths with every container type
\* declared, an unsupported width, and a module that lacks a container.
Envs ==
    {[ptr_bytes |-> p, module |-> AllContainers] : p \in {1, 2, 4, 8, 16}}
    \cup {[ptr_bytes |-> 8, module |-> AllContainers \ {"dict.RocDict"}]}

BuiltinLayout(b) == [k |-> "Builtin", builtin |-> b]
StructLayout(fields) == [k |-> "Struct", fields |-> fields]

\* Layouts without parts.
Leaves ==
    {BuiltinLayout(b) : b \in Builtins}
    \cup {[k |-> "PhantomEmptyStruct"], [k |-> "RecursivePointer"]}

\* Field layouts of sizes 1, 4, 8, the pointer width, and 3.
FieldLayouts ==
    {BuiltinLayout("Int8"), BuiltinLayout("Int32"), BuiltinLayout("Int64"),
     BuiltinLayout("Usize"),
     StructLayout(<<BuiltinLayout("Int16"), BuiltinLayout("Int8")>>)}

FieldLists == SeqsUpTo(FieldLayouts, MaxFields)

\* Tag lists: no tag, one tag, two tags.
TagLists ==
    {<<>>} \cup {<<f>> : f \in FieldLists}
           \cup {<<f, g>> : f \in FieldLists, g \in FieldLists}

ClosureLayouts ==
    {[block |-> StructLayout(<<>>)],
     [block |-> StructLayout(<<BuiltinLayout("Int64"),
                               BuiltinLayout("Str")>>)],
     [block |-> [k |-> "Union", variant |-> "NonRecursive",
                 tags |-> <<<<BuiltinLayout("Int8")>>,
                            <<BuiltinLayout("Int64"),
                              BuiltinLayout("Int8")>>>>]]}

RetLayouts ==
    {BuiltinLayout("Int64"), BuiltinLayout("Dict"), StructLayout(<<>>)}

\* Argument layouts, with a function pointer and a closure among them.
ArgLayouts ==
    {BuiltinLayout("Int64"), BuiltinLayout("Str"),
     [k |-> "Pointer", inner |-> BuiltinLayout("Int8")],
     [k |-> "FunctionPointer", args |-> <<BuiltinLayout("Int64")>>,
      ret_layout |-> BuiltinLayout("Int1")],
     [k |-> "Closure", args |-> <<>>,
      closure_layout |-> [block |-> StructLayout(<<BuiltinLayout("Int64")>>)],
      ret_layout |-> BuiltinLayout("Int64")]}

ArgLists == SeqsUpTo(ArgLayouts, MaxFields)

Layouts ==
    Leaves
    \cup {[k |-> "Pointer", inner |-> l] : l \in Leaves \cup ArgLayouts}
    \cup {StructLayout(fs) : fs \in FieldLists \cup ArgLists}
    \cup {[k |-> "Union", variant |-> v, tags |-> tags] :
            v \in {"Recursive", "NullableWrapped", "NonRecursive"},
            tags \in TagLists}
    \cup {[k |-> "Union", variant |-> "NullableUnwrapped",
           other_fields |-> fs] : fs \in FieldLists}
    \cup {[k |-> "Union", variant |-> "NonNullableUnwrapped",
           fields |-> fs] : fs \in FieldLists}
    \cup {[k |-> "FunctionPointer", args |-> args, ret_layout |-> rl] :
            args \in ArgLists, rl \in RetLayouts}
    \cup {[k |-> "Closure", args |-> args, closure_layout |-> cd,
           ret_layout |-> rl] :
            args \in ArgLists, cd \in ClosureLayouts, rl \in RetLayouts}

InitLower ==
    /\ alloc = NoAlloc
    /\ lower = NoLowering
    /\ buf = <<>>
    /\ relocs = <<>>
    /\ last = NoCall
    /\ regs = [r \in X86_64GPReg |-> W64Zero]
    /\ cpu = Machine(regs)

LowerLayout ==
    /\ lower.op = "none"
    /\ \E env \in Envs, layout \in Layouts :
          lower' = [op |-> "basic_type_from_layout", env |-> env,
                    layout |-> layout,
                    ty |-> basic_type_from_layout(env, layout)]
    /\ UNCHANGED <<buf, relocs, last, regs, cpu, alloc>>

BlockOfMemorySlices ==
    /\ lower.op = "none"
    /\ \E env \in Envs, layouts \in TagLists :
          lower' = [op |-> "block_of_memory_slices", env |-> env,
                    layouts |-> layouts,
                    ty |-> block_of_memory_slices(layouts, env.ptr_bytes)]
    /\ UNCHANGED <<buf, relocs, last, regs, cpu, alloc>>

\* The lowered type is dropped; the next call starts afresh.
DropLowered ==
    /\ lower.op # "none"
    /\ lower' = NoLowering
    /\ UNCHANGED <<buf, relocs, last, regs, cpu, alloc>>

NextLower == LowerLayout \/ BlockOfMemorySlices \/ DropLowered

SpecLower == InitLower /\ [][NextLower]_vars

(***************************************************************************)
(* Properties of type lowering.                                            *)
(***************************************************************************)
\* The environment the claims assume: a supported pointer width, and the
\* three container types declared.
GoodEnv(env) ==
    /\ env.ptr_bytes \in {1, 2, 4, 8}
    /\ AllContainers \subseteq env.module

\* C15: type lowering is total: with a pointer width in {1, 2, 4, 8} and
\* the three opaque container types declared, basic_type_from_layout
\* returns a target type, without failing, for every layout -- every Layout
\* case and every UnionLayout variant, unions with an empty tag list and
\* NullableUnwrapped / NonNullableUnwrapped with an empty field list
\* included.
C15_LoweringTotal ==
    (lower.op = "basic_type_from_layout" /\ GoodEnv(lower.env)) =>
        lower.ty # Panicked

\* C16: lowering Closure(args, cd, ret) yields a non-packed struct of
\* exactly two fields {FP, CD}, where CD is the lowering of
\* cd.as_block_of_memory_layout() and FP is a pointer to a non-variadic
\* function type whose return type is the lowering of ret and whose
\* parameters are the lowerings of args in order followed by CD; lowering
\* FunctionPointer(args, ret) yields the same function pointer without the
\* extra parameter.
C16_ClosureShape ==
    (/\ lower.op = "basic_type_from_layout"
     /\ lower.layout.k \in {"Closure", "FunctionPointer"}
     /\ GoodEnv(lower.env)) =>
        LET l == lower.layout
            Lowered(x) == basic_type_from_layout(lower.env, x)
            params == [i \in 1..Len(l.args) |-> Lowered(l.args[i])]
            CD == Lowered(l.closure_layout.block)
            FP(ps) == [t |-> "ptr",
                       to |-> [t |-> "fn", ret |-> Lowered(l.ret_layout),
                               params |-> ps, variadic |-> FALSE]]
        IN  IF l.k = "Closure"
            THEN lower.ty = [t |-> "struct",
                             fields |-> <<FP(Append(params, CD)), CD>>,
                             packed |-> FALSE]
            ELSE lower.ty = FP(params)

C16_Witness ==
    /\ lower.op = "basic_type_from_layout"
    /\ lower.layout.k = "Closure"
    /\ GoodEnv(lower.env)
    /\ Len(lower.layout.args) = 2
    /\ lower.layout.args[1] # lower.layout.args[2]
    /\ lower.ty.t = "struct"
    /\ Len(lower.ty.fields[1].to.params) = 3

\* The sum of the stack sizes of a tag's fields, and the largest such sum.
RECURSIVE FieldsSize(_, _)
FieldsSize(fields, ptr_bytes) ==
    IF fields = <<>> THEN 0
    ELSE stack_size(Head(fields), ptr_bytes)
         + FieldsSize(Tail(fields), ptr_bytes)

LargestTag(tags, ptr_bytes) ==
    LET sums == {FieldsSize(tags[i], ptr_bytes) : i \in 1..Len(tags)}
    IN  IF sums = {} THEN 0
        ELSE CHOOSE m \in sums : \A n \in sums : n <= m

\* The bytes of an array type of i64 or i8 elements.
ArrayBytes(ty) == ty.size * (ty.of.bits \div 8)

\* C19: for every list of tag field-lists block_of_memory_slices takes as
\* union_size S the largest, over the tags, sum of the fields' stack sizes
\* (0 for an empty list) and returns a struct whose fields are [i64 x S/8]
\* alone when S % 8 = 0, and [i64 x S/8] followed by [i8 x S%8] otherwise;
\* the fields' bytes add up to S exactly, and the i8 array, when present,
\* has between 1 and 7 elements.
C19_BlockOfMemory ==
    lower.op = "block_of_memory_slices" =>
        LET S == LargestTag(lower.layouts, lower.env.ptr_bytes)
            words == [t |-> "array", of |-> [t |-> "int", bits |-> 64],
                      size |-> S \div 8]
            bytes == [t |-> "array", of |-> [t |-> "int", bits |-> 8],
                      size |-> S % 8]
            fields == lower.ty.fields
        IN  /\ lower.ty.t = "struct" /\ ~lower.ty.packed
            /\ fields = IF S % 8 = 0 THEN <<words>> ELSE <<words, bytes>>
            /\ ArrayBytes(fields[1])
                   + (IF Len(fields) = 2 THEN ArrayBytes(fields[2]) ELSE 0)
               = S
            /\ Len(fields) = 2 => fields[2].size \in 1..7

C19_Witness ==
    /\ lower.op = "block_of_memory_slices"
    /\ Len(lower.layouts) = 2
    /\ Len(lower.ty.fields) = 2
    /\ lower.ty.fields[1].size = 1
    /\ lower.ty.fields[2].size = 3

(***************************************************************************)
(* Running a prolog, a body and the matching epilog.                       *)
(***************************************************************************)
\* C21: prolog and epilog are balanced: for every leaf flag, saved-register
\* list and requested size for which setup_stack returns Ok(a), running the
\* prolog and then, with no net stack change in between, the epilog that
\* cleanup_stack emits for the same leaf flag, the same list and
\* aligned_stack_size = a performs as many pops as pushes and leaves RSP,
\* RBP and every register of the saved list with the values they held on
\* entry.
C21_FrameBalanced ==
    (last.op = "cleanup_stack" /\ last.paired /\ cpu.ran) =>
        /\ ~cpu.stopped
        /\ cpu.pushes = cpu.pops
        /\ cpu.r[RSP] = regs[RSP]
        /\ cpu.r[RBP] = regs[RBP]
        /\ \A i \in 1..Len(last.saved) :
              cpu.r[last.saved[i]] = regs[last.saved[i]]

C21_Witness ==
    /\ last.op = "cleanup_stack" /\ last.paired /\ cpu.ran
    /\ ~last.leaf
    /\ last.saved = <<R12, RDI, RSP, RSI>>
    /\ last.imm32 = 4096
    /\ cpu.pushes = 5 /\ cpu.pops = 5
    /\ cpu.r[R12] = regs[R12]

====
